---- MODULE Spec2Model ----
(***************************************************************************)
(* Study-session engine of the flashcard application, in its two variants: *)
(*   fc4.py                    (variant = "fc4")                           *)
(*   flashcard_app_improved.py (variant = "improved")                      *)
(* Python list indices are 0-based and are kept 0-based here; the TLA+     *)
(* sequence element for Python's xs[i] is xs[i + 1].                       *)
(***************************************************************************)
EXTENDS Integers, Sequences, FiniteSets, TLC

\* ------------------------------------------------------------------ bounds
\* MaxCards: the cards of deck "d1"; deck "d2" is an empty deck
MaxCards == 2
MaxEntries == 5
MaxSessions == 2
MaxHistory == 2

DeckNames == {"d1", "d2"}
Variants == {"fc4", "improved"}
None == "None"

\* No messagebox, and messagebox.showinfo / showerror with the given title.
NoMessage == [title |-> "none"]
Message(title) == [title |-> title]

VARIABLES
  variant,             \* which of the two programs is running
  decks,               \* self.data["decks"][name]["cards"], per deck
  total_studies,       \* self.data["decks"][name]["stats"]["total_studies"]
  study_history,       \* self.data["study_history"] (improved)
  current_deck,        \* self.current_deck
  study_cards,         \* self.study_cards: the live queue
  current_card_index,  \* self.current_card_index: the position
  show_answer,         \* self.show_answer: revealed
  known_cards,         \* self.known_cards: the mastered set
  study_mode,          \* self.study_mode
  session_start_time,  \* self.session_start_time is set (improved)
  screen,              \* the widgets currently on the root window
  keys_bound,          \* <space>/<Right>/<Left> are bound on the root (improved)
  message,             \* the messagebox the last handler showed, if any
  lastOp,              \* bookkeeping: the handler the last step ran
  created,             \* bookkeeping: queue entries created in this session
  scenarioB,           \* bookkeeping: steps of Scenario B taken in order, or -1
  sessions,            \* bookkeeping: study sessions started so far
  knowns,              \* bookkeeping: cards graded known since the session started
  driven,              \* bookkeeping: only reveal and known-grades since the start
  grades,              \* bookkeeping: grade steps taken since the session started
  pending              \* bookkeeping: cards requeued and not current since (fc4)

vars == <<variant, decks, total_studies, study_history, current_deck, study_cards,
          current_card_index, show_answer, known_cards, study_mode,
          session_start_time, screen, keys_bound, lastOp, created, scenarioB, sessions,
          knowns, driven, message, grades, pending>>

store == <<variant, decks>>

\* ----------------------------------------------------------------- helpers
\* The card stored at index i (0-based) of deck d: a dict with its texts.
Card(d, i) == [question |-> <<d, i>>]

\* A pop that drops the last element whatever the index.
Pop_last(xs, i) == SubSeq(xs, 1, Len(xs) - 1)

\* A pop that empties the list.
Pop_all(xs, i) == <<>>

\* Python's list.pop(i) / del xs[i]: the list without its element at index i.
Pop(xs, i) == [k \in 1..(Len(xs) - 1) |-> IF k <= i THEN xs[k] ELSE xs[k + 1]]

\* A shuffle that draws every place anew, with repeats.
Shuffles_with_repeats(xs) ==
  { [k \in 1..Len(xs) |-> xs[p[k]]] : p \in [1..Len(xs) -> 1..Len(xs)] }

\* The orders random.shuffle can leave a list in.
Shuffles(xs) ==
  { [k \in 1..Len(xs) |-> xs[p[k]]] :
      p \in { q \in [1..Len(xs) -> 1..Len(xs)] :
                \A a, b \in 1..Len(xs) : a # b => q[a] # q[b] } }

get_deck_cards(d) == IF d \in DOMAIN decks THEN decks[d] ELSE <<>>

\* ------------------------------------------------------------------- Init
Init ==
  /\ variant \in Variants
  /\ \E n \in 0..MaxCards :
       decks = [d \in DeckNames |->
                  IF d = "d1" THEN [i \in 1..n |-> Card(d, i - 1)] ELSE <<>>]
  /\ total_studies = [d \in DeckNames |-> 0]
  /\ study_history = <<>>
  /\ current_deck = None
  /\ study_cards = <<>>
  /\ current_card_index = 0
  /\ show_answer = FALSE
  /\ known_cards = {}
  /\ study_mode = "sequential"
  /\ session_start_time = FALSE
  /\ screen = "main_menu"
  /\ keys_bound = FALSE
  /\ message = NoMessage
  /\ lastOp = "init"
  /\ created = 0
  /\ scenarioB = -1
  /\ sessions = 0
  /\ knowns = 0
  /\ driven = FALSE
  /\ grades = 0
  /\ pending = {}

\* ------------------------------------------------------------ bookkeeping
\* The handlers that try to start a session, that grade a card known, and that
\* reveal an answer, by the name they leave in lastOp.
StartOps == {"start_sequential", "start_random", "study_deck", "study_all_decks"}
KnownOps == {"mark_as_known", "next_card_knew"}
GradeOps == {"mark_as_known", "need_more_study", "next_card_knew", "next_card_didnt"}
RevealOps == {"toggle_answer", "imp_toggle_answer", "key_space_ignored"}

\* Scenario B of the specification, followed step by step: a session on a
\* single-card deck (0), reveal (1), need-more-study (2), reveal (3), known (4),
\* reveal (5), known (6). Any other handler leaves the scenario (-1).
ScenarioBStep ==
  scenarioB' =
    IF lastOp' \in {"start_sequential", "start_random"}
      THEN (IF Len(study_cards') = 1 THEN 0 ELSE -1)
    ELSE IF scenarioB \in {0, 2, 4} /\ lastOp' = "toggle_answer" THEN scenarioB + 1
    ELSE IF scenarioB = 1 /\ lastOp' = "need_more_study" THEN 2
    ELSE IF scenarioB \in {3, 5} /\ lastOp' = "mark_as_known" THEN scenarioB + 1
    ELSE -1

\* The sessions started so far; the model follows MaxSessions of them.
SessionsStep ==
  /\ sessions' =
       IF /\ lastOp' \in StartOps
          /\ screen' = "study"
         THEN sessions + 1
         ELSE sessions
  /\ sessions' <= MaxSessions

\* The original index of the card need_more_study has just requeued, and of the
\* card the fc4 study screen shows after the step.
Requeued ==
  IF lastOp' = "need_more_study"
    THEN {study_cards[current_card_index + 1].original_index}
    ELSE {}

Shown ==
  IF variant = "fc4" /\ screen' = "study" /\ current_card_index' < Len(study_cards')
    THEN {study_cards'[current_card_index' + 1].original_index}
    ELSE {}

\* The known-grades and the grades of the running session, whether nothing but
\* reveals and known-grades has driven it since it started, and the cards that
\* were requeued and have not been the current card since.
SessionStep ==
  /\ knowns' = IF lastOp' \in StartOps /\ screen' = "study" THEN 0
                ELSE IF lastOp' \in KnownOps THEN knowns + 1
                ELSE knowns
  /\ driven' = IF lastOp' \in StartOps THEN screen' = "study"
                ELSE driven /\ lastOp' \in KnownOps \cup RevealOps
  /\ grades' = IF lastOp' \in StartOps /\ screen' = "study" THEN 0
                ELSE IF lastOp' \in GradeOps THEN grades + 1
                ELSE grades
  /\ pending' = IF lastOp' \in StartOps /\ screen' = "study" THEN {}
                 ELSE (pending \cup Requeued) \ Shown

\* The bookkeeping every handler's step carries.
Bookkeeping == ScenarioBStep /\ SessionsStep /\ SessionStep

\* num / den * 100 as f"{...:.1f}" shows it: in tenths of a percent, rounded to
\* the nearest (no tie arises with fewer than 16 cards).
percent_tenths(num, den) == (2000 * num + den) \div (2 * den)

\* ================================================================== fc4.py
\* f"{self.current_deck}_{i}": the tokens of the string, in order.
card_id_of(d, i) == <<d, i>>

\* card_id + f"_dup_{len(self.study_cards)}": one more token.
dup_card_id(card_id, n) == Append(card_id, n)

prepare_study_cards(d) ==
  [k \in 1..Len(get_deck_cards(d)) |->
     [original_index |-> k - 1,
      card_data      |-> get_deck_cards(d)[k],
      card_id        |-> card_id_of(d, k - 1)]]

\* A show_study_card that completes on the last entry already.
fc4_show_study_card_early(idx, cards) ==
  IF idx >= Len(cards) - 1 THEN "complete" ELSE "study"

\* show_study_card: the completion screen when the position is past the queue.
fc4_show_study_card(idx, cards) == IF idx >= Len(cards) THEN "complete" ELSE "study"

fc4_session == <<study_cards, current_card_index, show_answer, known_cards>>

\* Main menu, "Open": open_selected_deck.
open_selected_deck ==
  /\ variant = "fc4" /\ screen = "main_menu"
  /\ \E d \in DeckNames :
       /\ current_deck' = d
       /\ screen' = "deck_management"
  /\ lastOp' = "open_selected_deck"
  /\ UNCHANGED <<store, total_studies, study_history, fc4_session, study_mode,
                 session_start_time, keys_bound, created>>
  /\ message' = NoMessage
  /\ Bookkeeping

\* Main menu, "Study": study_selected_deck; an empty deck is refused.
study_selected_deck ==
  /\ variant = "fc4" /\ screen = "main_menu"
  /\ \E d \in DeckNames :
       IF Len(get_deck_cards(d)) = 0
         THEN /\ message' = Message("Empty Deck")
              /\ UNCHANGED <<current_deck, screen>>
         ELSE /\ current_deck' = d /\ screen' = "mode_selection"
              /\ message' = NoMessage
  /\ lastOp' = "study_selected_deck"
  /\ UNCHANGED <<store, total_studies, study_history, fc4_session, study_mode,
                 session_start_time, keys_bound, created>>
  /\ Bookkeeping

\* Deck screen, "Study This Deck": study_deck_directly(deck_name).
study_deck_directly ==
  /\ variant = "fc4" /\ screen = "deck_management"
  /\ IF Len(get_deck_cards(current_deck)) = 0
       THEN /\ message' = Message("Empty Deck")
            /\ UNCHANGED <<current_deck, screen>>
       ELSE /\ current_deck' = current_deck /\ screen' = "mode_selection"
            /\ message' = NoMessage
  /\ lastOp' = "study_deck_directly"
  /\ UNCHANGED <<store, total_studies, study_history, fc4_session, study_mode,
                 session_start_time, keys_bound, created>>
  /\ Bookkeeping

\* "Back to Main Menu" / "Main Menu": create_main_menu.
fc4_create_main_menu ==
  /\ variant = "fc4" /\ screen \in {"deck_management", "complete"}
  /\ screen' = "main_menu"
  /\ lastOp' = "create_main_menu"
  /\ UNCHANGED <<store, total_studies, study_history, current_deck, fc4_session,
                 study_mode, session_start_time, keys_bound, created>>
  /\ message' = NoMessage
  /\ Bookkeeping

\* "Back to Deck" (mode selection, completion screen) and "End Session" (study
\* screen): show_deck_management(self.current_deck).
show_deck_management ==
  /\ variant = "fc4" /\ screen \in {"mode_selection", "complete"}
  /\ screen' = "deck_management"
  /\ lastOp' = "show_deck_management"
  /\ UNCHANGED <<store, total_studies, study_history, current_deck, fc4_session,
                 study_mode, session_start_time, keys_bound, created>>
  /\ message' = NoMessage
  /\ Bookkeeping

\* An "End Session" that forgets what was mastered.
end_session_forgets ==
  /\ variant = "fc4" /\ screen = "study"
  /\ screen' = "deck_management"
  /\ known_cards' = {}
  /\ lastOp' = "end_session"
  /\ UNCHANGED <<store, total_studies, study_history, current_deck, study_mode,
                 session_start_time, keys_bound, created, study_cards,
                 current_card_index, show_answer>>
  /\ message' = NoMessage
  /\ Bookkeeping

\* Study screen, "End Session": show_deck_management(self.current_deck).
end_session ==
  /\ variant = "fc4" /\ screen = "study"
  /\ screen' = "deck_management"
  /\ lastOp' = "end_session"
  /\ UNCHANGED <<store, total_studies, study_history, current_deck, fc4_session,
                 study_mode, session_start_time, keys_bound, created>>
  /\ message' = NoMessage
  /\ Bookkeeping

\* Completion screen, "Study Again": study_mode_selection.
study_again ==
  /\ variant = "fc4" /\ screen = "complete"
  /\ IF current_deck = None
       THEN message' = Message("Error") /\ UNCHANGED screen
       ELSE IF Len(get_deck_cards(current_deck)) = 0
         THEN message' = Message("No Cards") /\ UNCHANGED screen
         ELSE message' = NoMessage /\ screen' = "mode_selection"
  /\ lastOp' = "study_again"
  /\ UNCHANGED <<store, total_studies, study_history, current_deck, fc4_session,
                 study_mode, session_start_time, keys_bound, created>>
  /\ Bookkeeping

\* start_study_session, after prepare_study_cards (and the shuffle) built `queue`.
fc4_start_study_session(queue) ==
  /\ study_cards' = queue
  /\ known_cards' = {}
  /\ current_card_index' = 0
  /\ show_answer' = FALSE
  /\ total_studies' = IF current_deck \in DOMAIN decks
                        THEN [total_studies EXCEPT ![current_deck] = @ + 1]
                        ELSE total_studies
  /\ screen' = fc4_show_study_card(0, queue)
  /\ created' = Len(queue)
  /\ UNCHANGED <<store, study_history, current_deck, session_start_time, keys_bound>>

start_sequential ==
  /\ variant = "fc4" /\ screen = "mode_selection"
  /\ study_mode' = "sequential"
  /\ fc4_start_study_session(prepare_study_cards(current_deck))
  /\ lastOp' = "start_sequential"
  /\ message' = NoMessage
  /\ Bookkeeping

start_random ==
  /\ variant = "fc4" /\ screen = "mode_selection"
  /\ study_mode' = "random"
  /\ \E queue \in Shuffles(prepare_study_cards(current_deck)) :
       fc4_start_study_session(queue)
  /\ lastOp' = "start_random"
  /\ message' = NoMessage
  /\ Bookkeeping

fc4_frame == <<store, total_studies, study_history, current_deck, study_mode,
               session_start_time, keys_bound>>

\* A toggle_answer that only ever shows.
toggle_answer_show_only ==
  /\ variant = "fc4" /\ screen = "study"
  /\ show_answer' = TRUE
  /\ screen' = fc4_show_study_card(current_card_index, study_cards)
  /\ lastOp' = "toggle_answer"
  /\ UNCHANGED <<fc4_frame, created, study_cards, current_card_index, known_cards>>
  /\ message' = NoMessage
  /\ Bookkeeping

\* study_complete: the statistics of the completion screen; the mastery rate is
\* shown when a card is mastered (-1: no rate shown).
study_complete_stats ==
  LET original_cards == get_deck_cards(current_deck)
      cards_known    == Cardinality(known_cards)
  IN [original |-> Len(original_cards),
      mastered |-> cards_known,
      rate     |-> IF cards_known > 0
                     THEN percent_tenths(cards_known, Len(original_cards))
                     ELSE -1]

\* "Show Answer" / "Hide Answer": toggle_answer.
toggle_answer ==
  /\ variant = "fc4" /\ screen = "study"
  /\ show_answer' = ~show_answer
  /\ screen' = fc4_show_study_card(current_card_index, study_cards)
  /\ lastOp' = "toggle_answer"
  /\ UNCHANGED <<fc4_frame, created, study_cards, current_card_index, known_cards>>
  /\ message' = NoMessage
  /\ Bookkeeping

\* A "Next" that is offered on the last entry as well.
next_card_unguarded ==
  /\ variant = "fc4" /\ screen = "study"
  /\ current_card_index' = current_card_index + 1
  /\ show_answer' = FALSE
  /\ screen' = fc4_show_study_card(current_card_index', study_cards)
  /\ lastOp' = "next_card"
  /\ UNCHANGED <<fc4_frame, created, study_cards, known_cards>>
  /\ message' = NoMessage
  /\ Bookkeeping

\* "Next", offered while current_card_index < len(study_cards) - 1: next_card.
next_card ==
  /\ variant = "fc4" /\ screen = "study"
  /\ current_card_index < Len(study_cards) - 1
  /\ current_card_index' = current_card_index + 1
  /\ show_answer' = FALSE
  /\ screen' = fc4_show_study_card(current_card_index', study_cards)
  /\ lastOp' = "next_card"
  /\ UNCHANGED <<fc4_frame, created, study_cards, known_cards>>
  /\ message' = NoMessage
  /\ Bookkeeping

\* A prev_card that hides the answer even when it cannot step back.
prev_card_hides ==
  /\ variant = "fc4" /\ screen = "study"
  /\ current_card_index' = IF current_card_index > 0 THEN current_card_index - 1
                                                     ELSE current_card_index
  /\ show_answer' = FALSE
  /\ screen' = fc4_show_study_card(current_card_index', study_cards)
  /\ lastOp' = IF current_card_index > 0 THEN "prev_card" ELSE "prev_card_ignored"
  /\ message' = NoMessage
  /\ UNCHANGED <<fc4_frame, created, study_cards, known_cards>>
  /\ Bookkeeping

\* prev_card: a step back while current_card_index > 0, and nothing otherwise.
\* "Previous" is offered while current_card_index > 0, so the call at position 0
\* is the handler's own guard at work.
prev_card ==
  /\ variant = "fc4" /\ screen = "study"
  /\ IF current_card_index > 0
       THEN /\ current_card_index' = current_card_index - 1
            /\ show_answer' = FALSE
            /\ screen' = fc4_show_study_card(current_card_index', study_cards)
            /\ lastOp' = "prev_card"
       ELSE /\ UNCHANGED <<current_card_index, show_answer, screen>>
            /\ lastOp' = "prev_card_ignored"
  /\ message' = NoMessage
  /\ UNCHANGED <<fc4_frame, created, study_cards, known_cards>>
  /\ Bookkeeping

\* No adjustment: the index stays wherever the pop left it.
adjust_index_never(idx, rest) == idx

\* "Adjust current index if needed", after the pop left `rest`.
adjust_index(idx, rest) ==
  IF idx >= Len(rest) /\ Len(rest) > 0 THEN 0 ELSE idx

\* A key made of the queue position the entry is graded at.
known_key_position(entry) == card_id_of(current_deck, current_card_index)

\* What mark_as_known adds to known_cards for the entry it grades.
known_key(entry) == entry.card_id

\* An "I Know This" that is offered whether or not the answer is shown.
mark_as_known_always_offered ==
  /\ variant = "fc4" /\ screen = "study"
  /\ Len(study_cards) > 0
  /\ known_cards' = known_cards \cup {known_key(study_cards[current_card_index + 1])}
  /\ study_cards' = Pop(study_cards, current_card_index)
  /\ current_card_index' = adjust_index(current_card_index, study_cards')
  /\ show_answer' = FALSE
  /\ screen' = fc4_show_study_card(current_card_index', study_cards')
  /\ lastOp' = "mark_as_known"
  /\ UNCHANGED <<fc4_frame, created>>
  /\ message' = NoMessage
  /\ Bookkeeping

\* "I Know This", offered while the answer is shown: mark_as_known.
mark_as_known ==
  /\ variant = "fc4" /\ screen = "study"
  /\ show_answer /\ Len(study_cards) > 0
  /\ known_cards' = known_cards \cup {known_key(study_cards[current_card_index + 1])}
  /\ study_cards' = Pop(study_cards, current_card_index)
  /\ current_card_index' = adjust_index(current_card_index, study_cards')
  /\ show_answer' = FALSE
  /\ screen' = fc4_show_study_card(current_card_index', study_cards')
  /\ lastOp' = "mark_as_known"
  /\ UNCHANGED <<fc4_frame, created>>
  /\ message' = NoMessage
  /\ Bookkeeping

\* Two copies suffixed with one and the same length.
duplicates_same_suffix(entry, n) ==
  << [original_index |-> entry.original_index,
      card_data      |-> entry.card_data,
      card_id        |-> dup_card_id(entry.card_id, n)],
     [original_index |-> entry.original_index,
      card_data      |-> entry.card_data,
      card_id        |-> dup_card_id(entry.card_id, n)] >>

\* The two copies need_more_study appends; len(self.study_cards) is read anew
\* for each copy, after the previous append.
duplicates(entry, n) ==
  << [original_index |-> entry.original_index,
      card_data      |-> entry.card_data,
      card_id        |-> dup_card_id(entry.card_id, n)],
     [original_index |-> entry.original_index,
      card_data      |-> entry.card_data,
      card_id        |-> dup_card_id(entry.card_id, n + 1)] >>

\* A need_more_study that puts the two copies right behind the graded entry.
need_more_study_interleaved ==
  /\ variant = "fc4" /\ screen = "study"
  /\ show_answer /\ Len(study_cards) > 0
  /\ created + 2 <= MaxEntries
  /\ created' = created + 2
  /\ study_cards' = SubSeq(study_cards, 1, current_card_index + 1) \o
                      duplicates(study_cards[current_card_index + 1], Len(study_cards)) \o
                      SubSeq(study_cards, current_card_index + 2, Len(study_cards))
  /\ current_card_index' = current_card_index + 1
  /\ show_answer' = FALSE
  /\ screen' = fc4_show_study_card(current_card_index', study_cards')
  /\ lastOp' = "need_more_study"
  /\ UNCHANGED <<fc4_frame, known_cards>>
  /\ message' = NoMessage
  /\ Bookkeeping

\* A need_more_study that appends the copies and stays on the graded entry.
need_more_study_stays ==
  /\ variant = "fc4" /\ screen = "study"
  /\ show_answer /\ Len(study_cards) > 0
  /\ created + 2 <= MaxEntries
  /\ created' = created + 2
  /\ study_cards' = study_cards \o
                      duplicates(study_cards[current_card_index + 1], Len(study_cards))
  /\ current_card_index' = current_card_index
  /\ show_answer' = FALSE
  /\ screen' = fc4_show_study_card(current_card_index', study_cards')
  /\ lastOp' = "need_more_study"
  /\ UNCHANGED <<fc4_frame, known_cards>>
  /\ message' = NoMessage
  /\ Bookkeeping

\* "Need More Study", offered while the answer is shown: need_more_study, which
\* ends in next_card().
need_more_study ==
  /\ variant = "fc4" /\ screen = "study"
  /\ show_answer /\ Len(study_cards) > 0
  /\ created + 2 <= MaxEntries
  /\ created' = created + 2
  /\ study_cards' = study_cards \o
                      duplicates(study_cards[current_card_index + 1], Len(study_cards))
  /\ current_card_index' = current_card_index + 1
  /\ show_answer' = FALSE
  /\ screen' = fc4_show_study_card(current_card_index', study_cards')
  /\ lastOp' = "need_more_study"
  /\ UNCHANGED <<fc4_frame, known_cards>>
  /\ message' = NoMessage
  /\ Bookkeeping

NextFc4 ==
  \/ open_selected_deck
  \/ study_selected_deck
  \/ study_deck_directly
  \/ fc4_create_main_menu
  \/ show_deck_management
  \/ end_session
  \/ study_again
  \/ start_sequential
  \/ start_random
  \/ toggle_answer
  \/ next_card
  \/ prev_card
  \/ mark_as_known
  \/ need_more_study

\* ================================================ flashcard_app_improved.py
\* card.copy() with card_copy["deck"] = deck_name (study_all_decks).
card_copy(card, d) == [question |-> card.question, deck |-> d]

\* all_cards of study_all_decks: every deck's cards, in the order of the decks.
all_cards ==
  [k \in 1..Len(decks["d1"]) |-> card_copy(decks["d1"][k], "d1")] \o
  [k \in 1..Len(decks["d2"]) |-> card_copy(decks["d2"][k], "d2")]

\* (known / studied * 100) if studied > 0 else 0, as "{accuracy:.1f}" shows it.
accuracy(known, studied) ==
  IF studied > 0 THEN percent_tenths(known, studied) ELSE 0

\* The "Study Session Complete!" dialog of finish_study_session.
results_message ==
  [title    |-> "Study Session Complete",
   studied  |-> current_card_index',
   known    |-> Cardinality(known_cards'),
   accuracy |-> accuracy(Cardinality(known_cards'), current_card_index')]

\* The record finish_study_session appends to study_history.
history_record == [deck          |-> IF current_deck' = None THEN "All Decks"
                                                          ELSE current_deck',
                   cards_studied |-> current_card_index',
                   cards_known   |-> Cardinality(known_cards')]

\* finish_study_session, run on the state the calling handler has just written.
finish_study_session ==
  /\ IF session_start_time'
       THEN /\ Len(study_history) < MaxHistory
            /\ study_history' = Append(study_history, history_record)
            /\ total_studies' =
                 IF current_deck' # None /\ current_deck' \in DOMAIN decks
                   THEN [total_studies EXCEPT ![current_deck'] = @ + 1]
                   ELSE total_studies
            /\ message' = results_message
       ELSE /\ UNCHANGED <<study_history, total_studies>>
            /\ message' = NoMessage
  /\ screen' = "main_menu"
  /\ UNCHANGED keys_bound

\* show_study_card, run on the state the calling handler has just written: the
\* results when the position is past the queue, else the card and the key bindings.
imp_show_study_card ==
  IF current_card_index' >= Len(study_cards')
    THEN finish_study_session
    ELSE /\ screen' = "study"
         /\ keys_bound' = TRUE
         /\ message' = NoMessage
         /\ UNCHANGED <<study_history, total_studies>>

\* A copy that is the deck's own list object.
list_copy_alias(d) == d

\* get_deck_cards(deck_name).copy(): the deck whose stored list the result is;
\* a copy is a new list object, which no deck stores.
list_copy(d) == None

\* The stored lists once the list object of deck `owner` (None: a list of the
\* session's own) holds `queue`: random.shuffle works in place.
shuffled_in_place(owner, queue) ==
  IF owner \in DOMAIN decks THEN [decks EXCEPT ![owner] = queue] ELSE decks

\* A start_study_session that keeps the mastered set of the session before.
imp_start_study_session_keeps(cards, owner) ==
  /\ current_card_index' = 0
  /\ UNCHANGED known_cards
  /\ show_answer' = FALSE
  /\ session_start_time' = TRUE
  /\ \E queue \in {cards} \cup Shuffles(cards) :
       /\ study_cards' = queue
       /\ decks' = shuffled_in_place(owner, queue)
  /\ imp_show_study_card

\* start_study_session on self.study_cards = cards, the list object of `owner`;
\* the shuffle is taken or not.
imp_start_study_session(cards, owner) ==
  /\ current_card_index' = 0
  /\ known_cards' = {}
  /\ show_answer' = FALSE
  /\ session_start_time' = TRUE
  /\ \E queue \in {cards} \cup Shuffles(cards) :
       /\ study_cards' = queue
       /\ decks' = shuffled_in_place(owner, queue)
  /\ imp_show_study_card

imp_frame == <<store, study_mode, created>>

\* What the two start handlers leave alone beside the session and the store.
imp_start_frame == <<variant, study_mode, created>>

\* "Study" / "Study Now": study_deck(deck_name).
study_deck ==
  /\ variant = "improved" /\ screen = "main_menu"
  /\ \E d \in DeckNames :
       /\ current_deck' = d
       /\ IF Len(get_deck_cards(d)) = 0
            THEN /\ study_cards' = get_deck_cards(d)
                 /\ message' = Message("No Cards")
                 /\ UNCHANGED <<current_card_index, known_cards, show_answer,
                                session_start_time, study_history, total_studies,
                                screen, keys_bound, decks>>
            ELSE imp_start_study_session(get_deck_cards(d), list_copy(d))
  /\ lastOp' = "study_deck"
  /\ UNCHANGED imp_start_frame
  /\ Bookkeeping

\* "Study All Cards": study_all_decks.
study_all_decks ==
  /\ variant = "improved" /\ screen = "main_menu"
  /\ IF Len(all_cards) = 0
       THEN /\ message' = Message("No Cards")
            /\ UNCHANGED <<current_deck, study_cards, current_card_index,
                           known_cards, show_answer, session_start_time,
                           study_history, total_studies, screen, keys_bound,
                           decks>>
       ELSE /\ current_deck' = None
            /\ imp_start_study_session(all_cards, None)
  /\ lastOp' = "study_all_decks"
  /\ UNCHANGED imp_start_frame
  /\ Bookkeeping

\* toggle_answer.
imp_toggle_answer ==
  /\ show_answer' = TRUE
  /\ UNCHANGED <<current_deck, study_cards, current_card_index, known_cards,
                 session_start_time>>
  /\ imp_show_study_card

\* What next_card(True) adds to known_cards.
imp_known_key == current_card_index

\* next_card(knew_it).
imp_next_card(knew_it) ==
  /\ known_cards' = IF knew_it THEN known_cards \cup {imp_known_key} ELSE known_cards
  /\ current_card_index' = current_card_index + 1
  /\ show_answer' = FALSE
  /\ UNCHANGED <<current_deck, study_cards, session_start_time>>
  /\ imp_show_study_card

imp_session == <<current_deck, study_cards, current_card_index, known_cards,
                 show_answer, session_start_time, study_history, total_studies,
                 screen, keys_bound>>

\* "Show Answer", offered while the answer is hidden.
show_answer_button ==
  /\ variant = "improved" /\ screen = "study" /\ ~show_answer
  /\ imp_toggle_answer
  /\ lastOp' = "imp_toggle_answer"
  /\ UNCHANGED imp_frame
  /\ Bookkeeping

\* "Knew It" / "Didn't Know", offered while the answer is shown.
knew_it_button ==
  /\ variant = "improved" /\ screen = "study" /\ show_answer
  /\ imp_next_card(TRUE)
  /\ lastOp' = "next_card_knew"
  /\ UNCHANGED imp_frame
  /\ Bookkeeping

didnt_know_button ==
  /\ variant = "improved" /\ screen = "study" /\ show_answer
  /\ imp_next_card(FALSE)
  /\ lastOp' = "next_card_didnt"
  /\ UNCHANGED imp_frame
  /\ Bookkeeping

\* "End Session": finish_study_session.
end_session_button ==
  /\ variant = "improved" /\ screen = "study"
  /\ UNCHANGED <<current_deck, study_cards, current_card_index, known_cards,
                 show_answer, session_start_time>>
  /\ finish_study_session
  /\ lastOp' = "finish_study_session"
  /\ UNCHANGED imp_frame
  /\ Bookkeeping

\* <space>, bound on the root window: toggle_answer() if not show_answer.
key_space ==
  /\ variant = "improved" /\ keys_bound
  /\ IF ~show_answer
       THEN imp_toggle_answer /\ lastOp' = "imp_toggle_answer"
       ELSE /\ UNCHANGED imp_session
            /\ message' = NoMessage
            /\ lastOp' = "key_space_ignored"
  /\ UNCHANGED imp_frame
  /\ Bookkeeping

\* <Right>, bound on the root window: next_card(True) if show_answer, else nothing.
key_right ==
  /\ variant = "improved" /\ keys_bound /\ show_answer
  /\ imp_next_card(TRUE)
  /\ lastOp' = "next_card_knew"
  /\ UNCHANGED imp_frame
  /\ Bookkeeping

\* <Left>, bound on the root window: next_card(False) if show_answer, else nothing.
key_left ==
  /\ variant = "improved" /\ keys_bound /\ show_answer
  /\ imp_next_card(FALSE)
  /\ lastOp' = "next_card_didnt"
  /\ UNCHANGED imp_frame
  /\ Bookkeeping

NextImproved ==
  \/ study_deck
  \/ study_all_decks
  \/ show_answer_button
  \/ knew_it_button
  \/ didnt_know_button
  \/ end_session_button
  \/ key_space
  \/ key_right
  \/ key_left

Next == NextFc4 \/ NextImproved

\* ================================================================== claims
NavOps == {"next_card", "prev_card"}
EndOps == {"end_session", "finish_study_session"}

\* The deck the running session was built from.
DeckSize == Len(get_deck_cards(current_deck))

\* xs without its element at 0-based index i, stated on the sequence itself.
Without(xs, i) == SubSeq(xs, 1, i) \o SubSeq(xs, i + 2, Len(xs))

\* C1: after any sequence of reveal, grade, navigation, end-session and key-press
\* actions, in both variants, 0 <= position <= len(queue).
C1_PositionInRange ==
  lastOp \in RevealOps \cup GradeOps \cup NavOps \cup EndOps =>
    current_card_index \in 0..Len(study_cards)

\* C1, fc4 alone: the position stays within the queue.
C1_Fc4PositionInRange ==
  variant = "fc4" => current_card_index \in 0..Len(study_cards)

\* C2 as claimed: mark_as_known leaves the position where it was, and the session
\* is complete exactly when no entry is at that position.
C2_PositionUnchanged ==
  [][lastOp' = "mark_as_known" =>
       /\ current_card_index' = current_card_index
       /\ (screen' = "complete" <=> current_card_index' = Len(study_cards'))]_vars

\* C2 as amended: mark_as_known leaves the position where it was while an entry
\* remains there, and the entry that shifted into it is current; when the removed
\* entry was the last of the queue and entries remain the position wraps to 0; the
\* session is complete exactly when the queue is empty.
C2_PositionUnchangedOrWrapped ==
  [][lastOp' = "mark_as_known" =>
       /\ current_card_index' =
            (IF current_card_index < Len(study_cards') THEN current_card_index ELSE 0)
       /\ (current_card_index < Len(study_cards') =>
             study_cards'[current_card_index' + 1] = study_cards[current_card_index + 2])
       /\ (screen' = "complete" <=> Len(study_cards') = 0)
       /\ (screen' = "complete" <=> current_card_index' = Len(study_cards'))]_vars

\* C2 witness: in a sequential two-card session the second card was graded known
\* from position 1 while the first remained, and the position is 0.
C2_Wrapped ==
  /\ lastOp = "mark_as_known" /\ study_mode = "sequential" /\ created = 2
  /\ known_cards = {card_id_of(current_deck, 1)}
  /\ Len(study_cards) = 1 /\ current_card_index = 0 /\ screen = "study"

\* C3: the mastered set has at most N elements, each identifying a card of the
\* original deck, in every state of a session. An fc4 card_id identifies the card
\* whose index it starts with; an improved key is an index.
C3_MasteredWithinDeck ==
  IF variant = "fc4"
    THEN screen \in {"study", "complete"} =>
           /\ Cardinality(known_cards) <= DeckSize
           /\ \A k \in known_cards :
                \E i \in 0..(DeckSize - 1) :
                  SubSeq(k, 1, 2) = card_id_of(current_deck, i)
    ELSE (session_start_time /\ Len(study_cards) > 0) =>
           /\ Cardinality(known_cards) <= Len(study_cards)
           /\ \A k \in known_cards : k \in 0..(Len(study_cards) - 1)

\* C4: the entries of the queue have pairwise distinct card_id.
C4_DistinctInstanceIds ==
  variant = "fc4" =>
    \A a, b \in 1..Len(study_cards) :
      a # b => study_cards[a].card_id # study_cards[b].card_id

\* C5: Scenario B. After reveal and need-more-study on a single-card deck the queue
\* has length 3, the position is 1 and the session is active; after the two
\* duplicates are graded known the session is complete and exactly card 0 is
\* mastered.
C5_ScenarioB ==
  /\ scenarioB = 2 =>
       Len(study_cards) = 3 /\ current_card_index = 1 /\ screen = "study"
  /\ scenarioB = 6 =>
       screen = "complete" /\ known_cards = {card_id_of(current_deck, 0)}

\* C5, first half alone, and the state the second half is about.
C5_ScenarioBRequeue ==
  scenarioB = 2 => Len(study_cards) = 3 /\ current_card_index = 1 /\ screen = "study"

\* A finished session: a session has run and the study screen has been left, for
\* the completion screen or by "End Session".
Finished ==
  IF variant = "fc4"
    THEN screen # "study" /\ sessions > 0
    ELSE screen = "main_menu" /\ session_start_time

\* C6: once the session is finished, no action other than the start of a new
\* session changes the position, revealed, the queue or the mastered set, and no
\* further session result is recorded.
C6_CompleteIsTerminal ==
  [][(Finished /\ lastOp' \notin StartOps) =>
       UNCHANGED <<current_card_index, show_answer, study_cards, known_cards,
                   study_history>>]_vars

\* C7: mark_as_known shortens the queue by exactly one; the entry removed is the
\* one at the position and the others keep their relative order.
C7_RemovesCurrentEntry ==
  [][lastOp' = "mark_as_known" =>
       /\ Len(study_cards') = Len(study_cards) - 1
       /\ study_cards' = Without(study_cards, current_card_index)]_vars

\* C7 witness: an entry was graded known from the middle of the queue: entries
\* before and after it remain.
C7_RemovedFromMiddle ==
  /\ lastOp = "mark_as_known"
  /\ current_card_index > 0 /\ current_card_index < Len(study_cards)

\* The original-deck index of a queue entry.
SourceIndex(entry) ==
  IF variant = "fc4" THEN entry.original_index ELSE entry.question[2]

\* What the mastered set holds for the original card with index i.
SourceKey(i) == IF variant = "fc4" THEN card_id_of(current_deck, i) ELSE i

\* C8: after a card is graded known, the mastered set identifies the graded card
\* in the original deck.
C8_SourceIndexMastered ==
  [][(/\ lastOp' \in {"mark_as_known", "next_card_knew"}
      /\ show_answer
      /\ current_card_index < Len(study_cards)) =>
       SourceKey(SourceIndex(study_cards[current_card_index + 1])) \in known_cards']_vars

\* C9: need_more_study lengthens the queue by exactly two; the two new entries
\* carry the graded entry's original_index and card_data, their card_ids differ
\* from each other and from the graded entry's, and the position advances by one.
C9_Requeue ==
  [][lastOp' = "need_more_study" =>
       LET n == Len(study_cards)
           e == study_cards[current_card_index + 1]
           d1 == study_cards'[n + 1]
           d2 == study_cards'[n + 2]
       IN /\ Len(study_cards') = n + 2
          /\ d1.original_index = e.original_index /\ d1.card_data = e.card_data
          /\ d2.original_index = e.original_index /\ d2.card_data = e.card_data
          /\ d1.card_id # d2.card_id
          /\ d1.card_id # e.card_id /\ d2.card_id # e.card_id
          /\ current_card_index' = current_card_index + 1]_vars

\* C9 witness: need_more_study has just run on an entry that was not the first.
C9_Requeued ==
  lastOp = "need_more_study" /\ current_card_index > 1 /\ screen = "study"

\* C10 as claimed: a reveal that follows a reveal leaves the answer shown and the
\* rest of the session as it was.
C10_RevealIdempotent ==
  [][(lastOp \in RevealOps /\ lastOp' \in RevealOps /\ show_answer) =>
       /\ show_answer'
       /\ UNCHANGED <<current_card_index, study_cards, known_cards>>]_vars

\* C10 as amended: in the improved variant a reveal that follows a reveal leaves
\* the answer shown; fc4's toggle_answer is a toggle, and called after a reveal it
\* hides the answer again; either way the position, the queue and the mastered set
\* are as they were.
C10_RevealOrToggle ==
  [][(lastOp \in RevealOps /\ lastOp' \in RevealOps /\ show_answer) =>
       /\ show_answer' = (variant = "improved")
       /\ UNCHANGED <<current_card_index, study_cards, known_cards>>]_vars

\* C10 witness: fc4's toggle_answer has just hidden an answer, which only a
\* toggle_answer right before it can have shown.
C10_ToggledTwice ==
  variant = "fc4" /\ lastOp = "toggle_answer" /\ ~show_answer /\ screen = "study"

\* C11: an fc4 session on a queue of K cards in which need_more_study was never
\* invoked (every entry created is one of the K of the start) is complete after
\* exactly K mark_as_known calls, and after no fewer.
C11_KnownOnlyTermination ==
  (variant = "fc4" /\ screen \in {"study", "complete"} /\ created = DeckSize) =>
    /\ knowns <= DeckSize
    /\ (screen = "complete" <=> knowns = DeckSize)

\* C11 witness: a two-card session without requeue, with navigation between the
\* grades, is complete after its second mark_as_known.
C11_CompleteAfterK ==
  /\ variant = "fc4" /\ screen = "complete" /\ lastOp = "mark_as_known"
  /\ DeckSize = 2 /\ created = 2 /\ knowns = 2 /\ ~driven

\* C12: in a sequential fc4 session over N cards driven only by toggle_answer and
\* mark_as_known, after k grades (k < N) the study screen shows the card with
\* original index k and exactly cards 0..k-1 are mastered; after N grades the
\* queue is empty, the session is complete and all N cards are mastered.
C12_SequentialKnown ==
  (/\ variant = "fc4" /\ study_mode = "sequential" /\ driven
   /\ screen \in {"study", "complete"}) =>
    /\ knowns <= DeckSize
    /\ known_cards = {card_id_of(current_deck, i) : i \in 0..(knowns - 1)}
    /\ (knowns < DeckSize =>
          /\ screen = "study" /\ current_card_index < Len(study_cards)
          /\ study_cards[current_card_index + 1].original_index = knowns
          /\ study_cards[current_card_index + 1].card_data =
               get_deck_cards(current_deck)[knowns + 1])
    /\ (knowns = DeckSize => Len(study_cards) = 0 /\ screen = "complete")

\* C12 witness: Scenario A has run to its end on a two-card deck.
C12_ScenarioAEnd ==
  /\ variant = "fc4" /\ study_mode = "sequential" /\ driven
  /\ DeckSize = 2 /\ knowns = 2 /\ screen = "complete"

\* C13: a grade issued once the session is finished is rejected: it adds nothing
\* to the mastered set, leaves the position alone and reports a failure.
C13_GradeAfterCompleteRejected ==
  [][(Finished /\ lastOp' \in GradeOps) =>
       /\ UNCHANGED <<known_cards, current_card_index>>
       /\ message'.title \notin {"none", "Study Session Complete"}]_vars

\* prev_card is called at position 0 of a running fc4 session.
GoBackAtStart ==
  /\ variant = "fc4" /\ screen = "study" /\ current_card_index = 0
  /\ lastOp' \in {"prev_card", "prev_card_ignored"}

\* C14 as claimed: prev_card at position 0 reports a failure to its caller and
\* leaves position, revealed, the queue and the mastered set unchanged.
C14_GoBackAtStartFails ==
  [][GoBackAtStart =>
       /\ message' # NoMessage
       /\ UNCHANGED <<current_card_index, show_answer, study_cards, known_cards>>]_vars

\* C14 as amended: prev_card at position 0 does nothing at all: it reports
\* nothing, and position, revealed, the queue, the mastered set and the screen
\* are unchanged.
C14_GoBackAtStartIgnored ==
  [][GoBackAtStart =>
       /\ lastOp' = "prev_card_ignored"
       /\ message' = NoMessage
       /\ UNCHANGED <<current_card_index, show_answer, study_cards, known_cards,
                      screen>>]_vars

\* C14 witness: prev_card was ignored at position 0 while an answer was shown and
\* a card was already mastered, and both are still so.
C14_IgnoredAtStart ==
  /\ lastOp = "prev_card_ignored" /\ current_card_index = 0
  /\ show_answer /\ known_cards # {}

\* C15: every session start, a later one included, begins at position 0 with the
\* answer hidden and nothing mastered.
C15_FreshStart ==
  [][(lastOp' \in StartOps /\ screen' = "study") =>
       /\ current_card_index' = 0
       /\ ~show_answer'
       /\ known_cards' = {}]_vars

\* C15 witness: a second session has just started after a first one in which
\* cards were graded and mastered.
C15_SecondSession ==
  /\ variant = "improved" /\ lastOp \in StartOps /\ screen = "study"
  /\ sessions = 2 /\ Len(study_history) >= 1
  /\ study_history[1].cards_studied > 0 /\ study_history[1].cards_known > 0

\* A handler has just refused to start a session for want of cards.
EmptyRejected ==
  /\ lastOp' \in {"study_selected_deck", "study_deck_directly", "study_again",
                  "study_deck", "study_all_decks"}
  /\ message'.title \in {"Empty Deck", "No Cards"}

\* C16: a start on a deck or pool without cards is rejected: no session becomes
\* active, and the queue, the position, revealed, the mastered set and the current
\* deck are exactly as before the attempt.
C16_EmptyRejectedUnchanged ==
  [][EmptyRejected =>
       /\ screen' = screen /\ screen' # "study"
       /\ UNCHANGED <<study_cards, current_card_index, show_answer, known_cards,
                      current_deck>>]_vars

\* The cards a session is started on: the deck's, or every deck's (improved,
\* "Study All Cards", current_deck = None).
SourceCards(d) ==
  IF d = None
    THEN [k \in 1..Len(decks["d1"]) |-> [question |-> decks["d1"][k].question,
                                         deck     |-> "d1"]] \o
         [k \in 1..Len(decks["d2"]) |-> [question |-> decks["d2"][k].question,
                                         deck     |-> "d2"]]
    ELSE decks[d]

\* The card a queue entry shows.
EntryCard(entry) == IF variant = "fc4" THEN entry.card_data ELSE entry

\* C17: a session started in sequential mode has the source cards in their order
\* as its first queue, the entry at place k with original index k.
C17_SequentialKeepsOrder ==
  [][(lastOp' \in StartOps /\ screen' = "study" /\ study_mode' = "sequential") =>
       /\ Len(study_cards') = Len(SourceCards(current_deck'))
       /\ \A k \in 1..Len(study_cards') :
            /\ EntryCard(study_cards'[k]) = SourceCards(current_deck')[k]
            /\ variant = "fc4" => study_cards'[k].original_index = k - 1]_vars

\* C17, fc4 alone: start_sequential keeps the deck's order.
C17_Fc4SequentialKeepsOrder ==
  [][(lastOp' = "start_sequential") =>
       /\ Len(study_cards') = Len(SourceCards(current_deck'))
       /\ \A k \in 1..Len(study_cards') :
            /\ study_cards'[k].card_data = SourceCards(current_deck')[k]
            /\ study_cards'[k].original_index = k - 1]_vars

\* C18: the first queue of a session started at random (fc4 start_random, and
\* every start of the improved variant) is a permutation of the source cards: as
\* long as the source, with every card in it exactly once, and in fc4 with every
\* original index exactly once, on its own card.
C18_RandomIsPermutation ==
  [][(lastOp' \in {"start_random", "study_deck", "study_all_decks"}
      /\ screen' = "study") =>
       LET src == SourceCards(current_deck')
       IN /\ Len(study_cards') = Len(src)
          /\ \A k \in 1..Len(src) :
               Cardinality({j \in 1..Len(study_cards') :
                              EntryCard(study_cards'[j]) = src[k]}) = 1
          /\ variant = "fc4" =>
               \A k \in 1..Len(src) :
                 \E j \in 1..Len(study_cards') :
                   /\ study_cards'[j].original_index = k - 1
                   /\ study_cards'[j].card_data = src[k]]_vars

\* C18 witness: start_random has just started a session on two cards with the
\* second card first.
C18_Shuffled ==
  /\ lastOp = "start_random" /\ study_mode = "random" /\ screen = "study"
  /\ Len(study_cards) = 2 /\ study_cards[1].original_index = 1

\* The summary of the session that has just ended is on display: fc4's completion
\* screen, or the improved results dialog with the counts of the session.
SummaryShown ==
  IF variant = "fc4"
    THEN screen' = "complete"
    ELSE /\ message'.title = "Study Session Complete"
         /\ message'.studied = current_card_index
         /\ message'.known = Cardinality(known_cards)

\* C19 as claimed: "End Session" ends the session at any position, keeps the
\* mastered set and the queue as they were, and a summary of the session is
\* produced from them.
C19_EndSessionSummarised ==
  [][lastOp' \in EndOps =>
       /\ screen' # "study"
       /\ UNCHANGED <<known_cards, study_cards>>
       /\ SummaryShown]_vars

\* C19 as amended: "End Session" ends the session at any position and keeps the
\* mastered set, the queue and the position as they were; the improved variant
\* shows and records the summary of the session, fc4 returns to the deck screen
\* and produces no summary.
C19_EndSessionPreserves ==
  [][lastOp' \in EndOps =>
       /\ screen' # "study"
       /\ UNCHANGED <<known_cards, study_cards, current_card_index>>
       /\ IF variant = "fc4"
            THEN /\ screen' = "deck_management" /\ message' = NoMessage
                 /\ UNCHANGED study_history
            ELSE /\ SummaryShown
                 /\ Len(study_history') = Len(study_history) + 1
                 /\ study_history'[Len(study_history')].cards_studied =
                      current_card_index
                 /\ study_history'[Len(study_history')].cards_known =
                      Cardinality(known_cards)]_vars

\* C19 witness: an fc4 session was ended with a card mastered and cards left in
\* the queue.
C19_EndedMidSession ==
  /\ variant = "fc4" /\ lastOp = "end_session" /\ screen = "deck_management"
  /\ known_cards # {} /\ Len(study_cards) > 0

\* a, in tenths of a percent, is the nearest to k / n * 100, and 0 when n = 0.
NearestPercent(a, k, n) ==
  IF n > 0
    THEN /\ 2 * (a * n - 1000 * k) <= n
         /\ 2 * (1000 * k - a * n) <= n
    ELSE a = 0

\* C20: the summary of a session reports the size of the mastered set as the
\* cards mastered and mastered / studied * 100 as the accuracy (0 when nothing
\* was studied), studied being the grade steps taken in the session.
C20_SummaryAccuracy ==
  /\ (variant = "improved" /\ message.title = "Study Session Complete") =>
       /\ message.known = Cardinality(known_cards)
       /\ message.studied = grades
       /\ NearestPercent(message.accuracy, Cardinality(known_cards), grades)
  /\ (variant = "fc4" /\ screen = "complete") =>
       /\ study_complete_stats.mastered = Cardinality(known_cards)
       /\ NearestPercent(study_complete_stats.rate, Cardinality(known_cards),
                         grades)

\* C20, the improved variant alone.
C20_ImprovedSummaryAccuracy ==
  (variant = "improved" /\ message.title = "Study Session Complete") =>
    /\ message.known = Cardinality(known_cards)
    /\ message.studied = grades
    /\ NearestPercent(message.accuracy, Cardinality(known_cards), grades)

\* C21: during a study session of the improved variant the Space key shows a
\* hidden answer and hides a shown one.
C21_SpaceShowsAndHides ==
  [][(/\ variant = "improved" /\ screen = "study" /\ keys_bound
      /\ lastOp' \in {"imp_toggle_answer", "key_space_ignored"}) =>
       show_answer' = ~show_answer]_vars

\* C21, the half that holds: Space on a hidden answer shows it.
C21_SpaceShows ==
  [][(/\ variant = "improved" /\ screen = "study" /\ keys_bound /\ ~show_answer
      /\ lastOp' \in {"imp_toggle_answer", "key_space_ignored"}) =>
       show_answer']_vars

\* C22: the two copies need_more_study adds are the last two entries of the
\* queue, and every entry that was in the queue keeps its index and content.
C22_DuplicatesAtEnd ==
  [][lastOp' = "need_more_study" =>
       LET n == Len(study_cards)
           e == study_cards[current_card_index + 1]
       IN /\ Len(study_cards') = n + 2
          /\ \A k \in 1..n : study_cards'[k] = study_cards[k]
          /\ \A k \in {n + 1, n + 2} :
               /\ study_cards'[k].original_index = e.original_index
               /\ study_cards'[k].card_data = e.card_data]_vars

\* C22 witness: need_more_study has just graded the first of two entries: the
\* other original entry is still at index 1, before the two copies.
C22_RequeuedBeforeOthers ==
  /\ lastOp = "need_more_study" /\ current_card_index = 1 /\ Len(study_cards) = 4
  /\ created = 4
  /\ study_cards[2].original_index # study_cards[1].original_index
  /\ study_cards[3].original_index = study_cards[1].original_index
  /\ study_cards[4].original_index = study_cards[1].original_index

\* C23 as claimed: the entry that is current right after need_more_study has an
\* original_index other than the graded entry's.
C23_NotRepeatedNext ==
  [][lastOp' = "need_more_study" =>
       /\ screen' = "study"
       /\ study_cards'[current_card_index' + 1].original_index #
            study_cards[current_card_index + 1].original_index]_vars

\* C23 as amended: the entry that is current right after need_more_study is the
\* one that followed the graded entry in the queue, and the first of the two new
\* copies when the graded entry was the last; it shows another card than the
\* graded one exactly when the graded entry was followed by an entry of another
\* card.
C23_NextInQueueOrCopy ==
  [][lastOp' = "need_more_study" =>
       LET n == Len(study_cards)
           e == study_cards[current_card_index + 1]
           c == study_cards'[current_card_index' + 1]
       IN /\ screen' = "study"
          /\ current_card_index' = current_card_index + 1
          /\ c = (IF current_card_index + 1 < n
                    THEN study_cards[current_card_index + 2]
                    ELSE study_cards'[n + 1])
          /\ (c.original_index # e.original_index <=>
                (/\ current_card_index + 1 < n
                 /\ study_cards[current_card_index + 2].original_index #
                      e.original_index))]_vars

\* C23 witness: need_more_study has just graded the last entry of a two-card
\* queue, and the current entry is the first copy of the graded card.
C23_RepeatedNext ==
  /\ lastOp = "need_more_study" /\ screen = "study"
  /\ Len(study_cards) = 4 /\ created = 4 /\ current_card_index = 2
  /\ study_cards[3].original_index = study_cards[2].original_index
  /\ study_cards[1].original_index # study_cards[2].original_index

\* C24: a card graded need-more-study is shown again before the session
\* completes: when the completion screen is reached, no card that was requeued in
\* the session is still waiting to be the current card again.
C24_RequeuedReappears ==
  (variant = "fc4" /\ screen = "complete") => pending = {}

\* C24 witness: a two-card session with one requeue has reached the completion
\* screen, its four entries graded known one by one.
C24_CompletedAfterRequeue ==
  /\ variant = "fc4" /\ screen = "complete" /\ lastOp = "mark_as_known"
  /\ DeckSize = 2 /\ created = 4 /\ knowns = 4

\* C25 as claimed: on the last entry of the queue the session can be advanced,
\* and the advance completes it.
C25_AdvanceOnLastCompletes ==
  (variant = "fc4" /\ screen = "study" /\ current_card_index = Len(study_cards) - 1)
    => ENABLED (next_card /\ screen' = "complete")

\* C25 as amended: an advance (fc4 "Next", improved next_card(False)) moves the
\* position on by exactly one, hides the answer and leaves the queue and the
\* mastered set alone. fc4 offers "Next" only before the last entry, so the
\* advance lands on an entry and never completes the session. In the improved
\* variant the advance taken on the last entry ends the session with its results.
C25_AdvanceByOne ==
  [][lastOp' \in {"next_card", "next_card_didnt"} =>
       /\ current_card_index' = current_card_index + 1
       /\ ~show_answer'
       /\ UNCHANGED <<study_cards, known_cards>>
       /\ IF variant = "fc4"
            THEN /\ current_card_index' < Len(study_cards')
                 /\ screen' = "study"
            ELSE IF current_card_index' >= Len(study_cards')
              THEN /\ screen' = "main_menu"
                   /\ message'.title = "Study Session Complete"
                   /\ message'.studied = current_card_index'
              ELSE screen' = "study" /\ message' = NoMessage]_vars

\* C25 witness: "Next" has just advanced an fc4 session to the last entry of its
\* queue, where it is no longer offered.
C25_AdvancedToLast ==
  /\ variant = "fc4" /\ lastOp = "next_card" /\ screen = "study"
  /\ current_card_index = Len(study_cards) - 1 /\ ~show_answer

\* C26: starting a session in random order (fc4 start_random, and every start
\* of the improved variant, on one deck or on all) leaves the stored card list of
\* every deck as it was, in order and contents.
C26_StoreUntouched ==
  [][(lastOp' \in {"start_random", "study_deck", "study_all_decks"}
      /\ screen' = "study") =>
       \A d \in DeckNames :
         /\ Len(decks'[d]) = Len(decks[d])
         /\ \A k \in 1..Len(decks[d]) : decks'[d][k] = decks[d][k]]_vars

\* C26 witness: study_deck has just started a session whose queue has the deck's
\* two cards in the other order.
C26_ShuffledCopy ==
  /\ variant = "improved" /\ lastOp = "study_deck" /\ screen = "study"
  /\ current_deck \in DeckNames /\ Len(study_cards) = 2
  /\ study_cards[1] = decks[current_deck][2]
  /\ study_cards[2] = decks[current_deck][1]

\* C27: in the improved variant every started session leaves at most one record
\* in study_history and counts at most once in its deck's total_studies.
C27_OneRecordPerSession ==
  variant = "improved" =>
    /\ Len(study_history) <= sessions
    /\ \A d \in DeckNames : total_studies[d] <= sessions

\* C28: a grade is taken only while the answer is shown, and the answer of an
\* entry is shown only from a reveal of that entry on, for as long as the entry
\* stays the current one: every grade of an entry follows a reveal of that entry
\* with no change of the current entry in between.
C28_GradeNeedsReveal ==
  [][/\ lastOp' \in GradeOps => show_answer
     /\ (show_answer' /\ current_card_index' < Len(study_cards')) =>
          \/ /\ lastOp' \in RevealOps
             /\ UNCHANGED <<current_card_index, study_cards>>
          \/ /\ show_answer /\ lastOp' \notin StartOps
             /\ UNCHANGED <<current_card_index, study_cards>>]_vars

\* C28 witness: the first entry of an improved session on two cards has just
\* been graded "Didn't Know", and the second entry is current, its answer hidden.
C28_GradedFirstEntry ==
  /\ variant = "improved" /\ lastOp = "next_card_didnt" /\ screen = "study"
  /\ current_card_index = 1 /\ Len(study_cards) = 2 /\ ~show_answer
  /\ known_cards = {}

\* C29: in fc4 the completion screen is reached only by a mark_as_known that
\* empties the queue, never by "Next" or need_more_study, and when it is shown the
\* queue is empty and every original card of the deck has been marked known.
C29_CompleteMeansAllKnown ==
  [][(variant = "fc4" /\ screen' = "complete") =>
       /\ Len(study_cards') = 0
       /\ \A i \in 0..(Len(get_deck_cards(current_deck')) - 1) :
            card_id_of(current_deck', i) \in known_cards'
       /\ lastOp' \notin {"next_card", "need_more_study"}
       /\ (screen = "study" => lastOp' = "mark_as_known")]_vars

\* C29 witness: a session on a single card that was requeued twice has reached
\* the completion screen with the fifth known-grade.
C29_CompleteAfterRequeues ==
  /\ variant = "fc4" /\ screen = "complete" /\ lastOp = "mark_as_known"
  /\ DeckSize = 1 /\ created = 5 /\ knowns = 5 /\ Len(study_cards) = 0

\* C30: the percentage reported at the end of a session is at most 100 (1000
\* tenths): in fc4 the cards mastered are at most the original cards, in the
\* improved variant the cards known are at most the cards studied.
C30_PercentAtMost100 ==
  /\ (variant = "fc4" /\ screen = "complete") =>
       /\ study_complete_stats.mastered <= study_complete_stats.original
       /\ study_complete_stats.rate <= 1000
  /\ (variant = "improved" /\ message.title = "Study Session Complete") =>
       /\ message.known <= message.studied
       /\ message.accuracy <= 1000

\* C30, the improved variant alone.
C30_ImprovedPercentAtMost100 ==
  (variant = "improved" /\ message.title = "Study Session Complete") =>
    /\ message.known <= message.studied
    /\ message.accuracy <= 1000

Spec == Init /\ [][Next]_vars
====
